---- MODULE Spec2Model ----
(***************************************************************************)
(* pipdeptree: discovery filter, validator and renderers as state machines *)
(* translated from src/pipdeptree/_discovery.py, _validate.py and          *)
(* _render/*.py.                                                           *)
(***************************************************************************)
EXTENDS Integers, Sequences, FiniteSets, TLC

VARIABLES
    warn,               \* warning_printer.should_warn()
    tree,               \* the PackageDAG: installed key -> list of requirement edges
    \* ---- _discovery.filter_valid_distributions
    iterable_dists,     \* the input records, in source order
    fvPc,               \* "loop" | "done"
    fvIdx,              \* position of the for loop in iterable_dists
    seen_dists,         \* dict normalized name -> record (a record is its index)
    first_seen,         \* first_seen_to_already_seen_dists_dict, in insertion order
    site_dirs,          \* site_dir_with_invalid_metadata
    dists,              \* the local list 'dists'
    fvResult,           \* the returned list
    fvWarnings,         \* the calls made to warning_printer.print_multi_line
    \* ---- _validate.validate
    vPc,                \* "start" | "cycles" | "done" | "raised"
    conflicts,          \* the local 'conflicts' of validate
    cycles,             \* the local 'cycles' of validate
    vReports,           \* the calls made to warning_printer.print_multi_line
    \* ---- _render.render and the renderers it runs
    options,            \* the Options handed to render()
    pyOptimize,         \* python -O: assert statements are stripped
    rPc,                \* "start" | "text_unicode" | "text_plain" | "dump_graphviz"
                        \* | "build_graphviz" | "print_graphviz" | "done" | "failed"
    rInvoked,           \* the renderer calls made, in order
    rPrinted,           \* what was written to stdout, in order
    rExit,              \* how the run ended: "none", an exception or SystemExit
    nodes,              \* render_text: the top-level nodes
    max_depth,          \* render_text: the max_depth argument
    tStack,             \* text renderer: the pending calls of aux, next one first
    tLines,             \* text renderer: the lines produced so far
    gvOutput,           \* the value dump_graphviz returned
    \* ---- _render.mermaid.render_mermaid
    mReverse,           \* isinstance(tree, ReversedPackageDAG)
    mPc,                \* "packages" | "dependencies" | "done"
    mPkg,               \* position of the outer loop in tree.items()
    mDep,               \* position of the inner loop
    package_key,        \* the local package_key
    node_ids_map,       \* the id cache of mermaid_id
    mLookups,           \* the calls of mermaid_id so far: <<key, returned id>>
    mNodes,             \* the set 'nodes'
    mEdges,             \* the set 'edges'
    mLines,             \* the lines of the returned text
    \* ---- _validate.cyclic_deps, one statement at a time
    dPc,                \* "roots" | "done"
    dIdx,               \* position of the loop 'for p in tree'
    dStack,             \* the frames of dfs, innermost first
    dVisited,           \* the set 'visited' of the current root
    dCdeps,             \* the list 'cdeps' of the current root
    dRet,               \* the value the last finished call of dfs returned
    dCycles             \* the list 'cycles'

discVars == <<iterable_dists, fvPc, fvIdx, seen_dists, first_seen,
              site_dirs, dists, fvResult, fvWarnings>>

valVars == <<vPc, conflicts, cycles, vReports>>

renVars == <<options, pyOptimize, rPc, rInvoked, rPrinted, rExit, nodes, max_depth,
             tStack, tLines, gvOutput>>

merVars == <<mReverse, mPc, mPkg, mDep, package_key, node_ids_map, mLookups, mNodes,
             mEdges, mLines>>

dfsVars == <<dPc, dIdx, dStack, dVisited, dCdeps, dRet, dCycles>>

vars == <<warn, tree, discVars, valVars, renVars, merVars, dfsVars>>

\* what the actions of one component leave alone
nonDiscVars == <<tree, valVars, renVars, merVars, dfsVars>>
nonValVars == <<discVars, renVars, merVars, dfsVars>>
nonRenVars == <<warn, discVars, valVars, merVars, dfsVars>>
nonMerVars == <<warn, tree, discVars, valVars, renVars, dfsVars>>
nonDfsVars == <<warn, tree, discVars, valVars, renVars, merVars>>

----------------------------------------------------------------------------
\* Bounds of the model
MaxDists == 3
MaxReqs == 2
MaxDepthOption == 1
MaxLines == 6
MaxLevel == 4

----------------------------------------------------------------------------
\* Sequence helpers

Range(s) == {s[i] : i \in 1..Len(s)}

SeqsUpTo(S, n) == UNION {[1..k -> S] : k \in 0..n}

----------------------------------------------------------------------------
\* _discovery.py

NoName == <<"<no Name>">>

\* Raw project names as sequences of characters.
RawNames ==
    { <<"A", "b">>, <<"a", "b">>, <<"a", "_", "b">>, <<"a", "-", ".", "b">>, <<"c">> }

SiteDirs == {"site1", "site2"}

DistRecords == [name : RawNames \cup {NoName}, site : SiteDirs]

\* str.lower() on the characters used
LowerChar(c) ==
    CASE c = "A" -> "a"
      [] c = "B" -> "b"
      [] c = "C" -> "c"
      [] OTHER -> c

IsSeparator(c) == c \in {"-", "_", "."}

\* packaging.utils.canonicalize_name: re.sub(r"[-_.]+", "-", name).lower()
RECURSIVE CollapseSeparators(_)
CollapseSeparators(s) ==
    IF s = <<>> THEN <<>>
    ELSE IF IsSeparator(Head(s))
         THEN IF Len(s) > 1 /\ IsSeparator(s[2])
              THEN CollapseSeparators(Tail(s))
              ELSE <<"-">> \o CollapseSeparators(Tail(s))
         ELSE <<Head(s)>> \o CollapseSeparators(Tail(s))

canonicalize_name(name) ==
    LET collapsed == CollapseSeparators(name)
    IN  [i \in 1..Len(collapsed) |-> LowerChar(collapsed[i])]

has_valid_metadata(dist) == dist.name # NoName

\* dict lookups on first_seen_to_already_seen_dists_dict (a sequence of
\* <<key, list>> pairs in insertion order; a Distribution is keyed by identity,
\* here its index in iterable_dists)
DictKeys(d) == [i \in 1..Len(d) |-> d[i][1]]

DictHas(d, k) == \E i \in 1..Len(d) : d[i][1] = k

\* d.setdefault(k, []).append(v)
DictSetDefaultAppend(d, k, v) ==
    IF DictHas(d, k)
    THEN [i \in 1..Len(d) |-> IF d[i][1] = k THEN <<k, Append(d[i][2], v)>> ELSE d[i]]
    ELSE Append(d, <<k, <<v>>>>)

DiscInit ==
    /\ iterable_dists \in SeqsUpTo(DistRecords, MaxDists)
    /\ fvPc = "loop"
    /\ fvIdx = 1
    /\ seen_dists = <<>>
    /\ first_seen = <<>>
    /\ site_dirs = {}
    /\ dists = <<>>
    /\ fvResult = <<>>
    /\ fvWarnings = <<>>

\* lines 62-64: a record without Name is skipped
FvdInvalidMetadata ==
    /\ fvPc = "loop"
    /\ fvIdx <= Len(iterable_dists)
    /\ ~has_valid_metadata(iterable_dists[fvIdx])
    /\ fvIdx' = fvIdx + 1
    /\ UNCHANGED <<iterable_dists, warn, fvPc, seen_dists, first_seen, site_dirs,
                   dists, fvResult, fvWarnings>>
    /\ UNCHANGED nonDiscVars

\* lines 66-69: first occurrence of a normalized name
FvdFirstSeen ==
    /\ fvPc = "loop"
    /\ fvIdx <= Len(iterable_dists)
    /\ has_valid_metadata(iterable_dists[fvIdx])
    /\ LET normalized_name == canonicalize_name(iterable_dists[fvIdx].name)
       IN  /\ ~DictHas(seen_dists, normalized_name)
           /\ seen_dists' = Append(seen_dists, <<normalized_name, fvIdx>>)
    /\ fvIdx' = fvIdx + 1
    /\ UNCHANGED <<iterable_dists, warn, fvPc, first_seen, site_dirs, dists,
                   fvResult, fvWarnings>>
    /\ UNCHANGED nonDiscVars

SeenDist(d, k) == (CHOOSE i \in 1..Len(d) : d[i][1] = k)

\* lines 66-73: a later occurrence of a normalized name
FvdDuplicate ==
    /\ fvPc = "loop"
    /\ fvIdx <= Len(iterable_dists)
    /\ has_valid_metadata(iterable_dists[fvIdx])
    /\ LET normalized_name == canonicalize_name(iterable_dists[fvIdx].name)
       IN  /\ DictHas(seen_dists, normalized_name)
           /\ first_seen' =
                IF warn
                THEN DictSetDefaultAppend(
                         first_seen,
                         seen_dists[SeenDist(seen_dists, normalized_name)][2],
                         fvIdx)
                ELSE first_seen
    /\ fvIdx' = fvIdx + 1
    /\ UNCHANGED <<iterable_dists, warn, fvPc, seen_dists, site_dirs, dists,
                   fvResult, fvWarnings>>
    /\ UNCHANGED nonDiscVars

\* lines 75-87: the warnings and the return
FvdReturn ==
    /\ fvPc = "loop"
    /\ fvIdx > Len(iterable_dists)
    /\ fvWarnings' =
         IF warn
         THEN <<[kind |-> "invalid_metadata", payload |-> site_dirs]>>
              \o (IF first_seen # <<>>
                  THEN <<[kind |-> "duplicates", payload |-> first_seen]>>
                  ELSE <<>>)
         ELSE <<>>
    /\ fvResult' = DictKeys(first_seen)
    /\ fvPc' = "done"
    /\ UNCHANGED <<iterable_dists, warn, fvIdx, seen_dists, first_seen, site_dirs, dists>>
    /\ UNCHANGED nonDiscVars

DiscIdle ==
    /\ iterable_dists = <<>>
    /\ fvPc = "idle"
    /\ fvIdx = 1
    /\ seen_dists = <<>>
    /\ first_seen = <<>>
    /\ site_dirs = {}
    /\ dists = <<>>
    /\ fvResult = <<>>
    /\ fvWarnings = <<>>

NextDiscovery ==
    \/ FvdInvalidMetadata
    \/ FvdFirstSeen
    \/ FvdDuplicate
    \/ FvdReturn

----------------------------------------------------------------------------
\* The dependency graph handed to the validator and the renderers

Keys == {"a", "b", "c"}

\* sort order of the normalized keys
KeyRank(k) ==
    CASE k = "a" -> 1
      [] k = "b" -> 2
      [] k = "c" -> 3
      [] k = "end" -> 4
      [] OTHER -> 5

\* installed version of each package
InstalledVersion(k) ==
    CASE k = "a" -> 1
      [] k = "b" -> 2
      [] OTHER -> 3

\* version constraints: NoSpec is an absent constraint, s > 0 stands for ">=s"
NoSpec == 0
AtLeast2 == 2

\* a ReqPackage: the target key and the version_spec of the requirement
ReqPackages(keys, specs) == [kind : {"req"}, key : keys, spec : specs]

\* a DistPackage of the tree
DistPackage(k) == [kind |-> "dist", key |-> k]

DistinctKeys(reqs) ==
    \A i, j \in 1..Len(reqs) : i # j => reqs[i].key # reqs[j].key

ReqLists(keys, specs) ==
    {reqs \in SeqsUpTo(ReqPackages(keys, specs), MaxReqs) : DistinctKeys(reqs)}

\* every graph over a non-empty set of installed keys; a requirement whose key
\* is not installed is a missing dependency
TreesOver(keys, specs) == UNION {[K -> ReqLists(keys, specs)] : K \in (SUBSET keys) \ {{}}}

Trees(specs) == TreesOver(Keys, specs)

\* the keys of the tree in iteration order
RECURSIVE SortKeys(_)
SortKeys(K) ==
    IF K = {} THEN <<>>
    ELSE LET m == CHOOSE k \in K : \A o \in K : KeyRank(k) <= KeyRank(o)
         IN  <<m>> \o SortKeys(K \ {m})

TreeKeys == SortKeys(DOMAIN tree)

\* ReqPackage.is_missing
is_missing(req) == req.key \notin DOMAIN tree

\* ReqPackage.is_conflicting
is_conflicting(req) ==
    /\ ~is_missing(req)
    /\ req.spec # NoSpec
    /\ InstalledVersion(req.key) < req.spec

\* PackageDAG.get_node_as_parent: the DistPackage with that key, or None
None == [kind |-> "None"]

get_node_as_parent(key) == IF key \in DOMAIN tree THEN DistPackage(key) ELSE None

----------------------------------------------------------------------------
\* _validate.py

Reverse(s) == [i \in 1..Len(s) |-> s[Len(s) + 1 - i]]

\* line 43: the test that decides whether req is appended
ReqKeep(req) == ~is_conflicting(req)

\* lines 41-45 of conflicting_deps: the defaultdict holds a package once a
\* requirement was appended for it
conflicting_deps ==
    LET kept(k) == SelectSeq(tree[k], ReqKeep)
        hit == {k \in DOMAIN tree : kept(k) # <<>>}
    IN  [k \in hit |-> kept(k)]

\* line 83 without the comparison with the root's key
ClosesCycleAnyVisited(root, current) == TRUE

\* line 83: a visited node closes a cycle when it is the root
ClosesCycle(root, current) == current.key = root.key

\* lines 68-86: dfs returns its result with the visited set and cdeps it leaves
RECURSIVE dfs(_, _, _, _), dfsReqs(_, _, _, _, _)
dfs(root, current, visited, cdeps) ==
    IF current.key \notin visited
    THEN LET visited1 == visited \cup {current.key}
             current_dist == get_node_as_parent(current.key)
         IN  IF current_dist = None
             THEN [ret |-> FALSE, visited |-> visited1, cdeps |-> cdeps]
             ELSE IF tree[current_dist.key] = <<>>
                  THEN [ret |-> FALSE, visited |-> visited1, cdeps |-> cdeps]
                  ELSE dfsReqs(root, current, tree[current_dist.key], visited1, cdeps)
    ELSE IF ClosesCycle(root, current)
         THEN [ret |-> TRUE, visited |-> visited, cdeps |-> Append(cdeps, current)]
         ELSE [ret |-> FALSE, visited |-> visited, cdeps |-> cdeps]

\* lines 79-82: the loop over reqs
dfsReqs(root, current, reqs, visited, cdeps) ==
    IF reqs = <<>>
    THEN [ret |-> FALSE, visited |-> visited, cdeps |-> cdeps]
    ELSE LET r == dfs(root, Head(reqs), visited, cdeps)
         IN  IF r.ret
             THEN [ret |-> TRUE, visited |-> r.visited, cdeps |-> Append(r.cdeps, current)]
             ELSE dfsReqs(root, current, Tail(reqs), r.visited, r.cdeps)

\* lines 88-97 of cyclic_deps
RECURSIVE CyclesFrom(_)
CyclesFrom(roots) ==
    IF roots = <<>> THEN <<>>
    ELSE LET p == DistPackage(Head(roots))
             r == dfs(p, p, {}, <<>>)
         IN  (IF r.ret THEN <<Reverse(r.cdeps)>> ELSE <<>>) \o CyclesFrom(Tail(roots))

cyclic_deps == CyclesFrom(TreeKeys)

\* lines 100-109, render_cycles_text: sorted(cycles, key=lambda c: c[0].key)
\* subscripts every element; an element that is a package, as when a dict of
\* conflicts is passed, cannot be subscripted (TypeError)
render_cycles_text(arg) ==
    IF arg.isDict
    THEN [raised |-> DOMAIN arg.value # {}, lines |-> <<>>]
    ELSE [raised |-> FALSE,
          lines |-> [i \in 1..Len(arg.value) |->
                        [j \in 1..Len(arg.value[i]) |-> arg.value[i][j].key]]]

ValInit ==
    /\ vPc = "start"
    /\ conflicts = <<>>
    /\ cycles = <<>>
    /\ vReports = <<>>

ValIdle ==
    /\ vPc = "idle"
    /\ conflicts = <<>>
    /\ cycles = <<>>
    /\ vReports = <<>>

\* line 17: nothing is done when warnings are silenced
ValidateSilent ==
    /\ vPc = "start"
    /\ ~warn
    /\ vPc' = "done"
    /\ UNCHANGED <<warn, tree, conflicts, cycles, vReports>>
    /\ UNCHANGED nonValVars

\* lines 18-22: the conflicts and their report
ValidateConflicts ==
    /\ vPc = "start"
    /\ warn
    /\ conflicts' = conflicting_deps
    /\ vReports' =
         IF DOMAIN conflicting_deps = {}
         THEN Append(vReports, [kind |-> "conflicts",
                                arg |-> [isDict |-> TRUE, value |-> conflicting_deps]])
         ELSE vReports
    /\ vPc' = "cycles"
    /\ UNCHANGED <<warn, tree, cycles>>
    /\ UNCHANGED nonValVars

\* lines 24-26 when no cycle was found
ValidateNoCycles ==
    /\ vPc = "cycles"
    /\ cyclic_deps = <<>>
    /\ cycles' = cyclic_deps
    /\ vPc' = "done"
    /\ UNCHANGED <<warn, tree, conflicts, vReports>>
    /\ UNCHANGED nonValVars

\* lines 24-26 when cycles were found: render_cycles_text(conflicts) is run
ValidateCycles ==
    /\ vPc = "cycles"
    /\ cyclic_deps # <<>>
    /\ cycles' = cyclic_deps
    /\ LET arg == [isDict |-> TRUE, value |-> conflicts]
       IN  /\ vReports' = Append(vReports, [kind |-> "cycles", arg |-> arg])
           /\ vPc' = IF render_cycles_text(arg).raised THEN "raised" ELSE "done"
    /\ UNCHANGED <<warn, tree, conflicts>>
    /\ UNCHANGED nonValVars

NextValidate ==
    \/ ValidateSilent
    \/ ValidateConflicts
    \/ ValidateNoCycles
    \/ ValidateCycles

----------------------------------------------------------------------------
\* _validate.cyclic_deps, one statement at a time (lines 59-97)

\* a frame of dfs: its argument current, the requirements its loop has still
\* to take, and whether line 70 was passed
DfsFrame(current, reqs, entered) ==
    [current |-> current, reqs |-> reqs, entered |-> entered]

\* the argument root of the running calls
DfsRootPackage == DistPackage(TreeKeys[dIdx])

DfsInit ==
    /\ dPc = "roots"
    /\ dIdx = 1
    /\ dStack = <<>>
    /\ dVisited = {}
    /\ dCdeps = <<>>
    /\ dRet = "none"
    /\ dCycles = <<>>

DfsIdle ==
    /\ dPc = "idle"
    /\ dIdx = 1
    /\ dStack = <<>>
    /\ dVisited = {}
    /\ dCdeps = <<>>
    /\ dRet = "none"
    /\ dCycles = <<>>

\* lines 90-93: the next root p, and the call dfs(p, p, visited, cdeps)
DfsRoot ==
    /\ dPc = "roots"
    /\ dStack = <<>>
    /\ dRet = "none"
    /\ dIdx <= Len(TreeKeys)
    /\ dVisited' = {}
    /\ dCdeps' = <<>>
    /\ dStack' = <<DfsFrame(DfsRootPackage, <<>>, FALSE)>>
    /\ UNCHANGED <<dPc, dIdx, dRet, dCycles>>
    /\ UNCHANGED nonDfsVars

\* lines 69-77: current was not visited; it is marked, and the call returns
\* False when current is not installed or requires nothing
DfsVisit ==
    /\ dStack # <<>>
    /\ ~Head(dStack).entered
    /\ dRet = "none"
    /\ LET current == Head(dStack).current
           current_dist == get_node_as_parent(current.key)
           reqs == IF current_dist = None THEN <<>> ELSE tree[current_dist.key]
       IN  /\ current.key \notin dVisited
           /\ dVisited' = dVisited \cup {current.key}
           /\ IF reqs = <<>>
              THEN /\ dStack' = Tail(dStack)
                   /\ dRet' = "False"
              ELSE /\ dStack' = <<DfsFrame(current, reqs, TRUE)>> \o Tail(dStack)
                   /\ dRet' = dRet
    /\ UNCHANGED <<dPc, dIdx, dCdeps, dCycles>>
    /\ UNCHANGED nonDfsVars

\* lines 83-86: current was visited before
DfsRevisit ==
    /\ dStack # <<>>
    /\ ~Head(dStack).entered
    /\ dRet = "none"
    /\ LET current == Head(dStack).current
       IN  /\ current.key \in dVisited
           /\ IF ClosesCycle(DfsRootPackage, current)
              THEN /\ dCdeps' = Append(dCdeps, current)
                   /\ dRet' = "True"
              ELSE /\ dCdeps' = dCdeps
                   /\ dRet' = "False"
    /\ dStack' = Tail(dStack)
    /\ UNCHANGED <<dPc, dIdx, dVisited, dCycles>>
    /\ UNCHANGED nonDfsVars

\* lines 79-80: the loop takes its next req and calls dfs(root, req, ...)
DfsCall ==
    /\ dStack # <<>>
    /\ Head(dStack).entered
    /\ dRet = "none"
    /\ Head(dStack).reqs # <<>>
    /\ LET frame == Head(dStack)
       IN  dStack' = <<DfsFrame(Head(frame.reqs), <<>>, FALSE),
                       DfsFrame(frame.current, Tail(frame.reqs), TRUE)>>
                        \o Tail(dStack)
    /\ UNCHANGED <<dPc, dIdx, dVisited, dCdeps, dRet, dCycles>>
    /\ UNCHANGED nonDfsVars

\* lines 80-82: the call made by the loop returned
DfsReturned ==
    /\ dStack # <<>>
    /\ dRet # "none"
    /\ IF dRet = "True"
       THEN /\ dCdeps' = Append(dCdeps, Head(dStack).current)
            /\ dStack' = Tail(dStack)
            /\ dRet' = "True"
       ELSE /\ dCdeps' = dCdeps
            /\ dStack' = dStack
            /\ dRet' = "none"
    /\ UNCHANGED <<dPc, dIdx, dVisited, dCycles>>
    /\ UNCHANGED nonDfsVars

\* line 86: the loop ended without a cycle
DfsLoopEnd ==
    /\ dStack # <<>>
    /\ Head(dStack).entered
    /\ dRet = "none"
    /\ Head(dStack).reqs = <<>>
    /\ dStack' = Tail(dStack)
    /\ dRet' = "False"
    /\ UNCHANGED <<dPc, dIdx, dVisited, dCdeps, dCycles>>
    /\ UNCHANGED nonDfsVars

\* lines 93-95: the call for the root returned
DfsRootDone ==
    /\ dPc = "roots"
    /\ dStack = <<>>
    /\ dRet # "none"
    /\ dCycles' = IF dRet = "True" THEN Append(dCycles, Reverse(dCdeps)) ELSE dCycles
    /\ dIdx' = dIdx + 1
    /\ dRet' = "none"
    /\ UNCHANGED <<dPc, dStack, dVisited, dCdeps>>
    /\ UNCHANGED nonDfsVars

\* line 97: every root was taken
DfsFinish ==
    /\ dPc = "roots"
    /\ dStack = <<>>
    /\ dRet = "none"
    /\ dIdx > Len(TreeKeys)
    /\ dPc' = "done"
    /\ UNCHANGED <<dIdx, dStack, dVisited, dCdeps, dRet, dCycles>>
    /\ UNCHANGED nonDfsVars

----------------------------------------------------------------------------
\* _render/__init__.py, _render/text.py, _render/graphviz.py

NoFormat == "None"

\* the graphviz library: its output formats and its layout engines
BackendFormats == {"dot", "png"}
BackendEngines == {"dot", "neato"}

OutputFormats == {"dot", "png", "neato", "bogus"}

Encodings == {"utf-8", "utf-16", "ascii"}

\* a depth is float("inf") or a non-negative integer
Unbounded == [inf |-> TRUE, n |-> 0]
Finite(n) == [inf |-> FALSE, n |-> n]
Depths == {Unbounded} \cup {Finite(n) : n \in 0..MaxDepthOption}

\* options.depth - 1
MinusOne(d) == IF d.inf THEN d ELSE Finite(d.n - 1)

\* depth <= max_depth
WithinDepth(depth, m) == m.inf \/ depth <= m.n

\* the options render() reads; freeze and license only change the text of a
\* line and are left out
AllOptions ==
    [json_tree : BOOLEAN, json : BOOLEAN, mermaid : BOOLEAN,
     output_format : OutputFormats \cup {NoFormat}, reverse : BOOLEAN,
     depth : Depths, encoding_type : Encodings, all : BOOLEAN]

SelectsText(o) ==
    ~o.json_tree /\ ~o.json /\ ~o.mermaid /\ o.output_format = NoFormat

SelectsGraphviz(o) ==
    ~o.json_tree /\ ~o.json /\ ~o.mermaid /\ o.output_format # NoFormat

\* the option records render() is run with: an option that the selected
\* renderer does not read is left at its default
RenderOptions ==
    {o \in AllOptions :
        /\ ~SelectsText(o) =>
              o.depth = Unbounded /\ o.encoding_type = "utf-8" /\ ~o.all
        /\ ~SelectsGraphviz(o) => ~o.reverse}

NoOptions == [json_tree |-> FALSE, json |-> FALSE, mermaid |-> FALSE,
              output_format |-> NoFormat, reverse |-> FALSE,
              depth |-> Unbounded, encoding_type |-> "utf-8", all |-> FALSE]

\* PackageDAG.sort: nodes by key, and each node's requirements by key
RECURSIVE SortReqs(_)
SortReqs(reqs) ==
    IF reqs = <<>> THEN <<>>
    ELSE LET m == CHOOSE i \in 1..Len(reqs) :
                     \A j \in 1..Len(reqs) : KeyRank(reqs[i].key) <= KeyRank(reqs[j].key)
         IN  <<reqs[m]>> \o SortReqs(SelectSeq(reqs, LAMBDA r : r # reqs[m]))

SortTree(t) == [k \in DOMAIN t |-> SortReqs(t[k])]

\* PackageDAG.get_children: the requirements of the node with that key
get_children(key) == IF key \in DOMAIN tree THEN tree[key] ELSE <<>>

\* the list_all argument without the negation of line 31
ListAllArgUnnegated(o) == o.all

\* __init__.py line 31: the list_all argument render() passes
ListAllArg(o) == ~o.all

\* __init__.py line 29: the max_depth argument render() passes
MaxDepthArg(o) == MinusOne(o.depth)

\* text.py lines 28-33: the top-level nodes of the sorted tree t
TopLevelNodes(t, list_all) ==
    LET all_nodes == SortKeys(DOMAIN t)
        branch_keys == UNION {{t[k][i].key : i \in 1..Len(t[k])} : k \in DOMAIN t}
    IN  IF list_all
        THEN SelectSeq(all_nodes, LAMBDA k : k \notin branch_keys)
        ELSE all_nodes

\* text.py line 35: the encodings rendered with box-drawing characters
UsesUnicode(encoding) == encoding \in {"utf-16", "utf-32"}

\* a call of aux: lvl counts the calls above it (0 for a top-level node) and
\* path lists the nodes of those calls and its own, from the top-level node
AuxCall(node, parent, cur_chain, depth, lvl, path) ==
    [node |-> node, parent |-> parent, cur_chain |-> cur_chain, depth |-> depth,
     lvl |-> lvl, path |-> path]

RenInit ==
    /\ options = NoOptions
    /\ pyOptimize \in BOOLEAN
    /\ rPc = "start"
    /\ rInvoked = <<>>
    /\ rPrinted = <<>>
    /\ rExit = "none"
    /\ nodes = <<>>
    /\ max_depth = Unbounded
    /\ tStack = <<>>
    /\ tLines = <<>>
    /\ gvOutput = "none"

RenIdle ==
    /\ options = NoOptions
    /\ pyOptimize = FALSE
    /\ rPc = "idle"
    /\ rInvoked = <<>>
    /\ rPrinted = <<>>
    /\ rExit = "none"
    /\ nodes = <<>>
    /\ max_depth = Unbounded
    /\ tStack = <<>>
    /\ tLines = <<>>
    /\ gvOutput = "none"

\* __init__.py lines 17-18
RenderJsonTreeOption ==
    /\ rPc = "start"
    /\ \E o \in RenderOptions :
          /\ o.json_tree
          /\ options' = o
    /\ rInvoked' = Append(rInvoked, [renderer |-> "render_json"])
    /\ rPrinted' = Append(rPrinted, [doc |-> "render_json"])
    /\ rPc' = "done"
    /\ UNCHANGED <<tree, pyOptimize, rExit, nodes, max_depth, tStack, tLines, gvOutput>>
    /\ UNCHANGED nonRenVars

\* __init__.py lines 19-20
RenderJsonOption ==
    /\ rPc = "start"
    /\ \E o \in RenderOptions :
          /\ ~o.json_tree /\ o.json
          /\ options' = o
    /\ rInvoked' = Append(rInvoked, [renderer |-> "render_json_tree"])
    /\ rPrinted' = Append(rPrinted, [doc |-> "render_json_tree"])
    /\ rPc' = "done"
    /\ UNCHANGED <<tree, pyOptimize, rExit, nodes, max_depth, tStack, tLines, gvOutput>>
    /\ UNCHANGED nonRenVars

\* __init__.py lines 21-22: the flowchart text is computed and dropped
RenderMermaidOption ==
    /\ rPc = "start"
    /\ \E o \in RenderOptions :
          /\ ~o.json_tree /\ ~o.json /\ o.mermaid
          /\ options' = o
    /\ rInvoked' = Append(rInvoked, [renderer |-> "render_mermaid"])
    /\ rPc' = "done"
    /\ UNCHANGED <<tree, pyOptimize, rPrinted, rExit, nodes, max_depth, tStack, tLines,
                   gvOutput>>
    /\ UNCHANGED nonRenVars

\* __init__.py lines 23-25: the assertion, then render_graphviz is entered
RenderGraphvizOption ==
    /\ rPc = "start"
    /\ \E o \in RenderOptions :
          /\ SelectsGraphviz(o)
          /\ options' = o
    /\ IF pyOptimize
       THEN /\ rInvoked' = Append(rInvoked, [renderer |-> "render_graphviz"])
            /\ rPc' = "dump_graphviz"
            /\ rExit' = rExit
       ELSE \* assert options.output_format is None
            /\ rInvoked' = rInvoked
            /\ rPc' = "failed"
            /\ rExit' = "AssertionError"
    /\ UNCHANGED <<tree, pyOptimize, rPrinted, nodes, max_depth, tStack, tLines, gvOutput>>
    /\ UNCHANGED nonRenVars

\* graphviz.py lines 103-105: render_graphviz, which the package exports, is
\* called by itself with an output format and the reverse flag
RenderGraphvizCall ==
    /\ rPc = "start"
    /\ \E o \in RenderOptions :
          /\ SelectsGraphviz(o)
          /\ options' = o
    /\ rInvoked' = Append(rInvoked, [renderer |-> "render_graphviz"])
    /\ rPc' = "dump_graphviz"
    /\ UNCHANGED <<tree, pyOptimize, rPrinted, rExit, nodes, max_depth, tStack, tLines,
                   gvOutput>>
    /\ UNCHANGED nonRenVars

\* __init__.py lines 26-34 and text.py lines 28-38
RenderTextOption ==
    /\ rPc = "start"
    /\ \E o \in RenderOptions :
          /\ SelectsText(o)
          /\ options' = o
          /\ max_depth' = MaxDepthArg(o)
          /\ LET sorted == SortTree(tree)
                 top == TopLevelNodes(sorted, ListAllArg(o))
             IN  /\ tree' = sorted
                 /\ nodes' = top
                 /\ tStack' = [i \in 1..Len(top) |-> AuxCall(top[i], "None", <<>>, 0, 0, <<top[i]>>)]
          /\ rPc' = IF UsesUnicode(o.encoding_type) THEN "text_unicode" ELSE "text_plain"
    /\ rInvoked' = Append(rInvoked, [renderer |-> "render_text"])
    /\ UNCHANGED <<pyOptimize, rPrinted, rExit, tLines, gvOutput>>
    /\ UNCHANGED nonRenVars

TextLine(call) == [node |-> call.node, parent |-> call.parent, lvl |-> call.lvl]

\* text.py lines 93-108: the calls of aux that a call of the Unicode aux makes
UnicodeChildCalls(call) ==
    LET children == get_children(call.node)
        rendered == SelectSeq(children,
                       LAMBDA c : c.key \in Range(call.cur_chain)
                                  \/ WithinDepth(call.depth, max_depth))
    IN  [i \in 1..Len(rendered) |->
            AuxCall(rendered[i].key, call.node,
                    Append(call.cur_chain, call.node),
                    call.depth + 1, call.lvl + 1,
                    Append(call.path, rendered[i].key))]

\* text.py lines 143-147: the calls of aux that a call of the plain aux makes
PlainChildCalls(call) ==
    LET children == get_children(call.node)
        rendered == SelectSeq(children,
                       LAMBDA c : c.key \notin Range(call.cur_chain)
                                  /\ WithinDepth(call.depth, max_depth))
    IN  [i \in 1..Len(rendered) |->
            AuxCall(rendered[i].key, call.node,
                    Append(call.cur_chain, rendered[i].key),
                    call.depth, call.lvl + 1,
                    Append(call.path, rendered[i].key))]

\* text.py lines 52-111: one call of aux of _render_text_with_unicode
TextAuxUnicode ==
    /\ rPc = "text_unicode"
    /\ tStack # <<>>
    /\ Len(tLines) < MaxLines
    /\ LET call == Head(tStack)
       IN  /\ tLines' = Append(tLines, TextLine(call))
           /\ tStack' = UnicodeChildCalls(call) \o Tail(tStack)
    /\ UNCHANGED <<tree, options, pyOptimize, rPc, rInvoked, rPrinted, rExit, nodes,
                   max_depth, gvOutput>>
    /\ UNCHANGED nonRenVars

\* text.py lines 128-149: one call of aux of _render_text_without_unicode
TextAuxPlain ==
    /\ rPc = "text_plain"
    /\ tStack # <<>>
    /\ Len(tLines) < MaxLines
    /\ LET call == Head(tStack)
       IN  /\ tLines' = Append(tLines, TextLine(call))
           /\ tStack' = PlainChildCalls(call) \o Tail(tStack)
    /\ UNCHANGED <<tree, options, pyOptimize, rPc, rInvoked, rPrinted, rExit, nodes,
                   max_depth, gvOutput>>
    /\ UNCHANGED nonRenVars

\* text.py lines 113-114 and 151-152: the lines are joined and printed
TextPrint ==
    /\ rPc \in {"text_unicode", "text_plain"}
    /\ tStack = <<>>
    /\ rPrinted' = Append(rPrinted,
                      [doc |-> "render_text", lines |-> tLines,
                       sep |-> IF rPc = "text_unicode" THEN "\n" ELSE ""])
    /\ rPc' = "done"
    /\ UNCHANGED <<tree, options, pyOptimize, rInvoked, rExit, nodes, max_depth, tStack,
                   tLines, gvOutput>>
    /\ UNCHANGED nonRenVars

\* text.py lines 52-111: one call of the Unicode aux, followed to the
\* interpreter's recursion limit of MaxLevel nested calls
AuxUnicodeCall ==
    /\ rPc = "text_unicode"
    /\ tStack # <<>>
    /\ Head(tStack).lvl <= MaxLevel
    /\ LET call == Head(tStack)
       IN  /\ tLines' = Append(tLines, TextLine(call))
           /\ tStack' = UnicodeChildCalls(call) \o Tail(tStack)
    /\ UNCHANGED <<tree, options, pyOptimize, rPc, rInvoked, rPrinted, rExit, nodes,
                   max_depth, gvOutput>>
    /\ UNCHANGED nonRenVars

\* text.py lines 128-149: one call of the plain aux, followed to the
\* interpreter's recursion limit of MaxLevel nested calls
AuxPlainCall ==
    /\ rPc = "text_plain"
    /\ tStack # <<>>
    /\ Head(tStack).lvl <= MaxLevel
    /\ LET call == Head(tStack)
       IN  /\ tLines' = Append(tLines, TextLine(call))
           /\ tStack' = PlainChildCalls(call) \o Tail(tStack)
    /\ UNCHANGED <<tree, options, pyOptimize, rPc, rInvoked, rPrinted, rExit, nodes,
                   max_depth, gvOutput>>
    /\ UNCHANGED nonRenVars

\* text.py lines 95 and 144: a call of aux nested deeper than the recursion
\* limit raises RecursionError, which nothing catches
AuxRecursionError ==
    /\ rPc \in {"text_unicode", "text_plain"}
    /\ tStack # <<>>
    /\ Head(tStack).lvl > MaxLevel
    /\ rExit' = "RecursionError"
    /\ rPc' = "failed"
    /\ UNCHANGED <<tree, options, pyOptimize, rInvoked, rPrinted, nodes, max_depth, tStack,
                   tLines, gvOutput>>
    /\ UNCHANGED nonRenVars

\* graphviz.py lines 28-35: the graphviz library cannot be imported
DumpGraphvizImportError ==
    /\ rPc = "dump_graphviz"
    /\ rPrinted' = Append(rPrinted, [doc |-> "graphviz is not available"])
    /\ rExit' = "RuntimeError"
    /\ rPc' = "failed"
    /\ UNCHANGED <<tree, options, pyOptimize, rInvoked, nodes, max_depth, tStack, tLines,
                   gvOutput>>
    /\ UNCHANGED nonRenVars

\* graphviz.py lines 37-49: the formats the output format is checked against
valid_formats == BackendEngines

\* graphviz.py lines 51-54: the output format is refused
DumpGraphvizUnsupportedFormat ==
    /\ rPc = "dump_graphviz"
    /\ options.output_format \notin valid_formats
    /\ rExit' = "SystemExit(0)"
    /\ rPc' = "exited"
    /\ UNCHANGED <<tree, options, pyOptimize, rInvoked, rPrinted, nodes, max_depth, tStack,
                   tLines, gvOutput>>
    /\ UNCHANGED nonRenVars

\* graphviz.py line 56: Digraph(format=...) refuses a format it does not know
DumpGraphvizDigraphError ==
    /\ rPc = "dump_graphviz"
    /\ options.output_format \in valid_formats
    /\ options.output_format \notin BackendFormats
    /\ rExit' = "ValueError"
    /\ rPc' = "failed"
    /\ UNCHANGED <<tree, options, pyOptimize, rInvoked, rPrinted, nodes, max_depth, tStack,
                   tLines, gvOutput>>
    /\ UNCHANGED nonRenVars

\* the tree handed to render() is a ReversedPackageDAG exactly when
\* options.reverse is set: its keys are then ReqPackage, its values DistPackage
KeyKind == IF options.reverse THEN "req" ELSE "dist"

\* graphviz.py lines 58-78: the graph is built (the attribute reads on the
\* packages are taken to succeed); lines 80-86: the result is the DOT text, or
\* the piped output as str when it decodes as ASCII and as bytes otherwise
DumpGraphvizBuild ==
    /\ rPc = "dump_graphviz"
    /\ options.output_format \in valid_formats
    /\ options.output_format \in BackendFormats
    /\ IF ~options.reverse /\ ~pyOptimize /\ DOMAIN tree # {} /\ KeyKind # "req"
       THEN \* line 60: assert isinstance(dep_rev, ReqPackage)
            /\ rExit' = "AssertionError"
            /\ rPc' = "failed"
            /\ gvOutput' = gvOutput
       ELSE /\ rExit' = rExit
            /\ rPc' = "print_graphviz"
            /\ gvOutput' \in IF options.output_format = "dot"
                              THEN {"str"}
                              ELSE {"str", "bytes"}
    /\ UNCHANGED <<tree, options, pyOptimize, rInvoked, rPrinted, nodes, max_depth, tStack,
                   tLines>>
    /\ UNCHANGED nonRenVars

\* graphviz.py lines 89-100, print_graphviz: a str has no decode attribute and
\* is written, reversed, to a binary stream; bytes are printed
PrintGraphviz ==
    /\ rPc = "print_graphviz"
    /\ IF gvOutput = "bytes"
       THEN /\ rPrinted' = Append(rPrinted, [doc |-> "repr of bytes"])
            /\ rExit' = rExit
            /\ rPc' = "done"
       ELSE /\ rPrinted' = rPrinted
            /\ rExit' = "TypeError"
            /\ rPc' = "failed"
    /\ UNCHANGED <<tree, options, pyOptimize, rInvoked, nodes, max_depth, tStack, tLines,
                   gvOutput>>
    /\ UNCHANGED nonRenVars

NextRender ==
    \/ RenderJsonTreeOption
    \/ RenderJsonOption
    \/ RenderMermaidOption
    \/ RenderGraphvizOption
    \/ RenderGraphvizCall
    \/ RenderTextOption
    \/ TextAuxUnicode
    \/ TextAuxPlain
    \/ TextPrint
    \/ DumpGraphvizImportError
    \/ DumpGraphvizUnsupportedFormat
    \/ DumpGraphvizDigraphError
    \/ DumpGraphvizBuild
    \/ PrintGraphviz

----------------------------------------------------------------------------
\* _render/mermaid.py

\* lines 11-34
RESERVED_IDS ==
    {"C4Component", "C4Container", "C4Deployment", "C4Dynamic", "_blank", "_parent",
     "_self", "_top", "call", "class", "classDef", "click", "end", "flowchart",
     "flowchart-v2", "graph", "interpolate", "linkStyle", "style", "subgraph"}

MermaidKeys == {"a", "end", "end_1"}

\* line 54: f"{key}_{number}"
SuffixedId(key, number) == key \o "_" \o ToString(number)

\* lines 53-57: the first number whose suffixed id is not in node_ids_map
RECURSIVE FirstFreeNumber(_, _, _)
FirstFreeNumber(map, key, number) ==
    IF SuffixedId(key, number) \notin DOMAIN map
    THEN number
    ELSE FirstFreeNumber(map, key, number + 1)

\* lines 46-58, mermaid_id: the id returned and the cache it leaves
mermaid_id(map, key) ==
    IF key \in DOMAIN map
    THEN [id |-> map[key], map |-> map]
    ELSE IF key \notin RESERVED_IDS
         THEN [id |-> key, map |-> (key :> key) @@ map]
         ELSE LET new_id == SuffixedId(key, FirstFreeNumber(map, key, 1))
              IN  [id |-> new_id, map |-> (key :> new_id) @@ map]

\* the version string of an installed package
VersionString(k) == ToString(InstalledVersion(k))

\* version_spec or "any"
EdgeLabel(spec) == IF spec = NoSpec THEN "any" ELSE ">=" \o ToString(spec)

NodeLine(id, name, text, missing) ==
    [id |-> id, label |-> <<name, text>>, missing |-> missing]

EdgeLine(from, to, label, dashed) ==
    [from |-> from, to |-> to, label |-> label, dashed |-> dashed]

MerInit ==
    /\ mReverse \in BOOLEAN
    /\ mPc = "packages"
    /\ mPkg = 1
    /\ mDep = 1
    /\ package_key = ""
    /\ node_ids_map = <<>>
    /\ mLookups = <<>>
    /\ mNodes = {}
    /\ mEdges = {}
    /\ mLines = <<>>

MerIdle ==
    /\ mReverse = FALSE
    /\ mPc = "idle"
    /\ mPkg = 1
    /\ mDep = 1
    /\ package_key = ""
    /\ node_ids_map = <<>>
    /\ mLookups = <<>>
    /\ mNodes = {}
    /\ mEdges = {}
    /\ mLines = <<>>

\* lines 64-69 and 77-80: the next package of tree.items() and its node
MermaidPackage ==
    /\ mPc = "packages"
    /\ mPkg <= Len(TreeKeys)
    /\ LET package == TreeKeys[mPkg]
           looked == IF mReverse THEN package ELSE VersionString(package)
           r == mermaid_id(node_ids_map, looked)
       IN  /\ node_ids_map' = r.map
           /\ mLookups' = Append(mLookups, <<looked, r.id>>)
           /\ package_key' = r.id
           /\ mNodes' = mNodes \cup {NodeLine(r.id, package, VersionString(package), FALSE)}
    /\ mPc' = "dependencies"
    /\ mDep' = 1
    /\ UNCHANGED <<mReverse, mPkg, mEdges, mLines>>
    /\ UNCHANGED nonMerVars

\* lines 70-75 and 81-89: the next dependency of the package and its edge
MermaidDependency ==
    /\ mPc = "dependencies"
    /\ mDep <= Len(tree[TreeKeys[mPkg]])
    /\ LET dependency == tree[TreeKeys[mPkg]][mDep]
           r == mermaid_id(node_ids_map, dependency.key)
       IN  /\ node_ids_map' = r.map
           /\ mLookups' = Append(mLookups, <<dependency.key, r.id>>)
           /\ IF mReverse
              THEN /\ mEdges' = mEdges \cup
                        {EdgeLine(r.id, package_key, EdgeLabel(dependency.spec), FALSE)}
                   /\ mNodes' = mNodes
              ELSE IF is_missing(dependency)
                   THEN /\ mNodes' = mNodes \cup
                             {NodeLine(package_key, dependency.key, "(missing)", TRUE)}
                        /\ mEdges' = mEdges \cup {EdgeLine(package_key, r.id, "", TRUE)}
                   ELSE /\ mEdges' = mEdges \cup
                             {EdgeLine(r.id, package_key, EdgeLabel(dependency.spec), FALSE)}
                        /\ mNodes' = mNodes
    /\ mDep' = mDep + 1
    /\ UNCHANGED <<mReverse, mPc, mPkg, package_key, mLines>>
    /\ UNCHANGED nonMerVars

\* the inner loop is exhausted
MermaidDependenciesDone ==
    /\ mPc = "dependencies"
    /\ mDep > Len(tree[TreeKeys[mPkg]])
    /\ mPkg' = mPkg + 1
    /\ mPc' = "packages"
    /\ UNCHANGED <<mReverse, mDep, package_key, node_ids_map, mLookups, mNodes, mEdges,
                   mLines>>
    /\ UNCHANGED nonMerVars

\* lines 91-97: the header, the class definition, the edges, then the nodes
MermaidReturn ==
    /\ mPc = "packages"
    /\ mPkg > Len(TreeKeys)
    /\ mLines' = <<"flowchart TD", "classDef missing stroke-dasharray: 5", mEdges, mNodes>>
    /\ mPc' = "done"
    /\ UNCHANGED <<mReverse, mPkg, mDep, package_key, node_ids_map, mLookups, mNodes,
                   mEdges>>
    /\ UNCHANGED nonMerVars

NextMermaid ==
    \/ MermaidPackage
    \/ MermaidDependency
    \/ MermaidDependenciesDone
    \/ MermaidReturn

----------------------------------------------------------------------------
\* Specifications

\* filter_valid_distributions on every input of at most MaxDists records
InitDiscovery ==
    /\ warn \in BOOLEAN
    /\ tree = <<>>
    /\ DiscInit
    /\ ValIdle
    /\ RenIdle
    /\ MerIdle
    /\ DfsIdle

SpecDiscovery == InitDiscovery /\ [][NextDiscovery]_vars

\* validate on every graph, with and without version constraints
InitValidate ==
    /\ warn \in BOOLEAN
    /\ tree \in Trees({NoSpec, AtLeast2})
    /\ DiscIdle
    /\ ValInit
    /\ RenIdle
    /\ MerIdle
    /\ DfsIdle

SpecValidate == InitValidate /\ [][NextValidate]_vars

\* validate on every graph whose requirements carry no constraint
InitCycles ==
    /\ warn \in BOOLEAN
    /\ tree \in Trees({NoSpec})
    /\ DiscIdle
    /\ ValInit
    /\ RenIdle
    /\ MerIdle
    /\ DfsIdle

SpecCycles == InitCycles /\ [][NextValidate]_vars

\* render() on every graph whose requirements carry no constraint
InitRender ==
    /\ warn = FALSE
    /\ tree \in Trees({NoSpec})
    /\ DiscIdle
    /\ ValIdle
    /\ RenInit
    /\ MerIdle
    /\ DfsIdle

SpecRender == InitRender /\ [][NextRender]_vars

\* render_mermaid on every forward and reversed graph over MermaidKeys
InitMermaid ==
    /\ warn = FALSE
    /\ tree \in TreesOver(MermaidKeys, {NoSpec})
    /\ DiscIdle
    /\ ValIdle
    /\ RenIdle
    /\ MerInit
    /\ DfsIdle

SpecMermaid == InitMermaid /\ [][NextMermaid]_vars

\* the graphs the traversals are run on: every graph over two keys, and every
\* graph over three keys in which a node requires at most one package
TraversalTrees ==
    TreesOver({"a", "b"}, {NoSpec})
       \cup {t \in Trees({NoSpec}) : \A k \in DOMAIN t : Len(t[k]) <= 1}

\* the traversals, each run by itself: cyclic_deps statement by statement, or
\* render_text with every text option
NextTraversals ==
    \/ DfsRoot
    \/ DfsVisit
    \/ DfsRevisit
    \/ DfsCall
    \/ DfsReturned
    \/ DfsLoopEnd
    \/ DfsRootDone
    \/ DfsFinish
    \/ RenderTextOption
    \/ AuxUnicodeCall
    \/ AuxPlainCall
    \/ AuxRecursionError
    \/ TextPrint

InitTraversals ==
    /\ warn = FALSE
    /\ tree \in TraversalTrees
    /\ DiscIdle
    /\ ValIdle
    /\ MerIdle
    /\ \/ DfsInit /\ RenIdle
       \/ DfsIdle /\ RenInit /\ ~pyOptimize

\* the interpreter runs the next statement whenever there is one
SpecTraversals == InitTraversals /\ [][NextTraversals]_vars /\ WF_vars(NextTraversals)

----------------------------------------------------------------------------
\* Properties of filter_valid_distributions (SpecDiscovery)

AllNamed == \A i \in 1..Len(iterable_dists) : has_valid_metadata(iterable_dists[i])

IsFirstOccurrence(i) ==
    /\ has_valid_metadata(iterable_dists[i])
    /\ \A j \in 1..(i - 1) :
          has_valid_metadata(iterable_dists[j]) =>
             canonicalize_name(iterable_dists[j].name)
                # canonicalize_name(iterable_dists[i].name)

RECURSIVE FirstOccurrencesFrom(_)
FirstOccurrencesFrom(i) ==
    IF i > Len(iterable_dists) THEN <<>>
    ELSE (IF IsFirstOccurrence(i) THEN <<i>> ELSE <<>>) \o FirstOccurrencesFrom(i + 1)

\* C1: when every input record carries a name, the returned list is exactly the
\* first occurrence of each distinct normalized name, in source order, with or
\* without duplicates and with or without warnings.
C1_FirstOccurrencesReturned ==
    (fvPc = "done" /\ AllNamed) => fvResult = FirstOccurrencesFrom(1)

\* C10: a record without a name is never returned, its site directory is in
\* the set handed to the invalid-metadata warning, and the loop still reaches
\* the end of the input.
C10_MalformedDroppedAndReported ==
    fvPc = "done" =>
       /\ fvIdx = Len(iterable_dists) + 1
       /\ \A i \in 1..Len(iterable_dists) :
             ~has_valid_metadata(iterable_dists[i]) =>
                /\ i \notin Range(fvResult)
                /\ warn =>
                      \E w \in 1..Len(fvWarnings) :
                         /\ fvWarnings[w].kind = "invalid_metadata"
                         /\ iterable_dists[i].site \in fvWarnings[w].payload

----------------------------------------------------------------------------
\* Properties of the validator (SpecValidate, SpecCycles)

ValidateRan == warn /\ vPc \in {"done", "raised"}

\* C2: the conflict result holds the pair (node, edge) exactly when edge is a
\* requirement of node and is_conflicting(edge); a node without a conflicting
\* edge is not a key of the result.
C2_ConflictsExactlyConflictingEdges ==
    (warn /\ vPc \in {"cycles", "done", "raised"}) =>
       /\ DOMAIN conflicts \subseteq DOMAIN tree
       /\ \A k \in DOMAIN tree :
             /\ k \in DOMAIN conflicts <=> \E i \in 1..Len(tree[k]) : is_conflicting(tree[k][i])
             /\ k \in DOMAIN conflicts => conflicts[k] = SelectSeq(tree[k], is_conflicting)

\* the installed keys reached from k by one requirement edge
Successors(k) == {tree[k][i].key : i \in 1..Len(tree[k])} \cap DOMAIN tree

RECURSIVE ReachFrom(_)
ReachFrom(S) ==
    LET next == S \cup UNION {Successors(k) : k \in S}
    IN  IF next = S THEN S ELSE ReachFrom(next)

\* p lies on a directed cycle of requirement edges between installed nodes
OnCycle(p) == p \in ReachFrom(Successors(p))

CyclesRootedAt(p) == {i \in 1..Len(cycles) : cycles[i][1].key = p}

IsCyclePath(c) ==
    /\ Len(c) >= 2
    /\ c[1].key = c[Len(c)].key
    /\ \A j \in 1..(Len(c) - 1) :
          /\ c[j].key \in DOMAIN tree
          /\ c[j + 1] \in Range(tree[c[j].key])

PathKeys(c) == [j \in 1..Len(c) |-> c[j].key]

\* the graph a -> b -> c -> a
Req(k) == [kind |-> "req", key |-> k, spec |-> NoSpec]

SingleCycleTree == [k \in Keys |-> CASE k = "a" -> <<Req("b")>>
                                      [] k = "b" -> <<Req("c")>>
                                      [] k = "c" -> <<Req("a")>>]

\* C3: cyclic_deps reports a cycle rooted at p exactly when p lies on a directed
\* cycle, at most one per root; each reported cycle starts and ends at the
\* root's key and follows requirement edges; on a -> b -> c -> a each root
\* yields the cycle through all three, rotated to that root.
C3_CyclesExactlyRootsOnCycles ==
    ValidateRan =>
       /\ \A p \in DOMAIN tree :
             /\ CyclesRootedAt(p) # {} <=> OnCycle(p)
             /\ Cardinality(CyclesRootedAt(p)) <= 1
       /\ \A i \in 1..Len(cycles) :
             /\ cycles[i][1] = DistPackage(cycles[i][1].key)
             /\ cycles[i][1].key \in DOMAIN tree
             /\ IsCyclePath(cycles[i])
       /\ tree = SingleCycleTree =>
             [i \in 1..Len(cycles) |-> PathKeys(cycles[i])]
                = << <<"a", "b", "c", "a">>, <<"b", "c", "a", "b">>, <<"c", "a", "b", "c">> >>

\* C3 witness: validate has run cyclic_deps on a -> b -> c -> a and found the
\* three rotations
C3_Witness ==
    /\ ValidateRan
    /\ tree = SingleCycleTree
    /\ Len(cycles) = 3

Reported(kind) == \E i \in 1..Len(vReports) : vReports[i].kind = kind

\* C9: with warnings enabled validate never raises, reports conflicts exactly
\* when the conflict result is non-empty and cycles exactly when the cycle list
\* is non-empty, and hands each renderer its own result.
C9_ValidateReportsAndCompletes ==
    warn =>
       /\ vPc # "raised"
       /\ vPc = "done" =>
             /\ Reported("conflicts") <=> DOMAIN conflicts # {}
             /\ Reported("cycles") <=> cycles # <<>>
             /\ \A i \in 1..Len(vReports) :
                   /\ vReports[i].kind = "conflicts" =>
                         vReports[i].arg = [isDict |-> TRUE, value |-> conflicts]
                   /\ vReports[i].kind = "cycles" =>
                         vReports[i].arg = [isDict |-> FALSE, value |-> cycles]

----------------------------------------------------------------------------
\* Properties of render() and the renderers (SpecRender)

TextRendering == SelectsText(options) /\ rPc \in {"text_unicode", "text_plain", "done"}

RequirementTargets == UNION {{tree[k][i].key : i \in 1..Len(tree[k])} : k \in DOMAIN tree}

\* the graph {a requires b, b requires nothing}
TreeAB == [k \in {"a", "b"} |-> IF k = "a" THEN <<Req("b")>> ELSE <<>>]

DefaultTextOptions == ~options.all /\ options.depth = Unbounded

LinesAB == << [node |-> "a", parent |-> "None", lvl |-> 0],
              [node |-> "b", parent |-> "a", lvl |-> 1] >>

ModeFlags(o) ==
    (IF o.json_tree THEN {"json_tree"} ELSE {})
       \cup (IF o.json THEN {"json"} ELSE {})
       \cup (IF o.mermaid THEN {"mermaid"} ELSE {})
       \cup (IF o.output_format # NoFormat THEN {"graphviz"} ELSE {})

\* the renderer that matches a selection of at most one mode
MatchingRenderer(o) ==
    CASE ModeFlags(o) = {"json_tree"} -> "render_json_tree"
      [] ModeFlags(o) = {"json"} -> "render_json"
      [] ModeFlags(o) = {"mermaid"} -> "render_mermaid"
      [] ModeFlags(o) = {"graphviz"} -> "render_graphviz"
      [] OTHER -> "render_text"

RenderEnded == rPc \in {"done", "failed", "exited"}

\* C5: one renderer runs per invocation, the one matching the selected mode,
\* and when render() returns, the matching document was written (the Graphviz
\* renderer writes its own output).
C5_MatchingRendererRunsAndEmits ==
    (RenderEnded /\ Cardinality(ModeFlags(options)) <= 1) =>
       /\ rInvoked = <<[renderer |-> MatchingRenderer(options)]>>
       /\ (rPc = "done" /\ MatchingRenderer(options) # "render_graphviz") =>
             \E i \in 1..Len(rPrinted) : rPrinted[i].doc = MatchingRenderer(options)

NoGraphWritten ==
    \A i \in 1..Len(rPrinted) : rPrinted[i].doc = "graphviz is not available"

\* C8: an output format the backend does not support, or a backend that cannot
\* be imported, ends the Graphviz render path with a failure, never with
\* success, and without output of a graph.
C8_GraphvizFailuresAreFatal ==
    /\ (RenderEnded /\ SelectsGraphviz(options)
           /\ options.output_format \notin BackendFormats) =>
          /\ rPc = "failed"
          /\ rExit \notin {"none", "SystemExit(0)"}
          /\ NoGraphWritten
    /\ rExit = "RuntimeError" =>
          /\ rPc = "failed"
          /\ NoGraphWritten

\* the nodes above the node of a call, from the top-level node down
Ancestors(call) == SubSeq(call.path, 1, Len(call.path) - 1)

NoRepeat(s) == \A i, j \in 1..Len(s) : i # j => s[i] # s[j]

\* C12: in both text modes render_text works with the maximum depth the caller
\* supplied; a child is rendered (a call of aux is made for it) only if its
\* name is not the name of a node on the path from the top-level node to its
\* parent and the parent's depth does not exceed the maximum depth; so with a
\* finite maximum depth m no line lies deeper than level m+1, and the nodes
\* above any rendered node are pairwise distinct.
C12_ChildrenGuardedByChainAndDepth ==
    TextRendering =>
       /\ max_depth = options.depth
       /\ \A i \in 1..Len(tStack) :
             tStack[i].lvl >= 1 =>
                /\ tStack[i].node \notin Range(Ancestors(tStack[i]))
                /\ WithinDepth(tStack[i].lvl - 1, options.depth)
       /\ ~options.depth.inf =>
             \A i \in 1..Len(tLines) : tLines[i].lvl <= options.depth.n + 1
       /\ \A i \in 1..Len(tStack) : NoRepeat(Ancestors(tStack[i]))

\* the assertion of render() failed: no renderer was entered
DispatcherAssertionFailed == rExit = "AssertionError" /\ rInvoked = <<>>

\* an assertion of dump_graphviz failed
NodeKindAssertionFailed == rExit = "AssertionError" /\ rInvoked # <<>>

\* C13: the tree being a forward graph when reverse is false and a reversed
\* graph when reverse is true, no assertion fails on the Graphviz path: not
\* the one render() makes on the output format, and not the ones dump_graphviz
\* makes on the kinds of the nodes.
C13_NoGraphvizAssertionFails ==
    SelectsGraphviz(options) =>
       /\ ~DispatcherAssertionFailed
       /\ ~NodeKindAssertionFailed

----------------------------------------------------------------------------
\* Properties of render_mermaid (SpecMermaid)

IdOfKey(k) == IF k \in DOMAIN node_ids_map THEN node_ids_map[k] ELSE "<no id>"

DeclaredIds == {n.id : n \in mNodes}

\* C7: in forward mode every package is declared under the id of its key with
\* its name and version, every resolved dependency has a labelled edge between
\* the two ids, every missing dependency has a dashed node under its own id and
\* an unlabelled dashed edge to it; so every edge end is a declared id and no
\* package declaration is replaced by a "(missing)" one.
C7_ForwardNodesAndEdges ==
    (mPc = "done" /\ ~mReverse) =>
       /\ \A k \in DOMAIN tree :
             /\ NodeLine(IdOfKey(k), k, VersionString(k), FALSE) \in mNodes
             /\ \A n \in mNodes : n.id = IdOfKey(k) => ~n.missing
             /\ \A i \in 1..Len(tree[k]) :
                   LET d == tree[k][i]
                   IN  IF is_missing(d)
                       THEN /\ NodeLine(IdOfKey(d.key), d.key, "(missing)", TRUE) \in mNodes
                            /\ EdgeLine(IdOfKey(k), IdOfKey(d.key), "", TRUE) \in mEdges
                       ELSE \E e \in mEdges :
                               /\ {e.from, e.to} = {IdOfKey(k), IdOfKey(d.key)}
                               /\ e.label = EdgeLabel(d.spec)
                               /\ ~e.dashed
       /\ \A e \in mEdges : e.from \in DeclaredIds /\ e.to \in DeclaredIds

----------------------------------------------------------------------------
\* Termination of the traversals (SpecTraversals)

TraversalReturned == dPc = "done" \/ rPc = "done"

\* C11: on every finite graph, cyclic or not, and with every maximum depth
\* including the unbounded one, the traversal that was started returns:
\* cyclic_deps after its depth-first search from every root, render_text after
\* the plain or the Unicode aux has rendered every top-level node.
C11_TraversalsTerminate == <>TraversalReturned

====
